---- MODULE Spec2Model ----
(***************************************************************************)
(* Model of src/app.py: the rule validator is_valid and the rejection-     *)
(* sampling generator generate_lotto_numbers.                              *)
(*                                                                         *)
(* Lists are sequences.  One step of the generator is one iteration of     *)
(* the while loop of lines 52-78; the return of line 80 is a step of its   *)
(* own.  random.sample is the nondeterministic choice of the drawn         *)
(* numbers.                                                                *)
(***************************************************************************)
EXTENDS Integers, Sequences, FiniteSets, TLC

\* ---------------------------------------------------------------------
\* Bounds of the model
\* ---------------------------------------------------------------------
\* Largest lotto number of the model; the source draws from range(1, 46).
MaxNumber == 8
\* Attempt budget of the bounded specification (the source starts at 10000,
\* which SpecBudget keeps).
TrialsBudget == 2
\* Largest requested count.
MaxCount == 2
\* The number that every excluded list of Spec holds and no fixed list.
GapNumber == 6
\* Largest number the validator specification builds combinations from.
MaxValidNumber == 11

\* ---------------------------------------------------------------------
\* Program constants
\* ---------------------------------------------------------------------
\* Numbers per combination: the literal 6 of lines 13, 59 and 63.
SetSize == 6
\* Required number of odd (and of even) members, line 14.
OddEvenTarget == 3
\* Length of a consecutive run that fails the combination, line 23.
RunLimit == 3
\* trials_limit = 10000, line 50.
TrialsLimit == 10000

VARIABLES
    pc,                    \* "loop": at the while test; "done": returned;
                           \* "raised": random.sample raised ValueError;
                           \* "call"/"ret": before/after a bare is_valid call
    count,                 \* parameter count
    use_odd_even_rule,     \* parameter use_odd_even_rule
    use_consecutive_rule,  \* parameter use_consecutive_rule
    fixed_numbers,         \* parameter fixed_numbers (a list)
    excluded_numbers,      \* parameter excluded_numbers (a list)
    results,               \* local results: list of accepted combinations
    trials_limit,          \* local trials_limit
    call_numbers,          \* argument numbers of a bare is_valid call (SpecValid)
    verdict,               \* what the bare is_valid call returned ("none": no call yet)
    attempts,              \* history: loop bodies entered so far
    draws                  \* history: calls of random.sample so far

vars == <<pc, count, use_odd_even_rule, use_consecutive_rule, fixed_numbers,
          excluded_numbers, results, trials_limit, call_numbers, verdict, attempts,
          draws>>

params == <<count, use_odd_even_rule, use_consecutive_rule, fixed_numbers,
            excluded_numbers>>

\* ---------------------------------------------------------------------
\* List helpers
\* ---------------------------------------------------------------------
Range(s) == {s[i] : i \in DOMAIN s}

\* Python's "x in list".
InList(x, s) == \E i \in DOMAIN s : s[i] = x

\* Python's sorted() on a list of ints.
sorted(s) == SortSeq(s, LAMBDA a, b : a < b)

RECURSIVE SetToList(_)
\* The ascending list of a finite set of ints (what parse_numbers returns).
SetToList(S) ==
    IF S = {} THEN <<>>
    ELSE LET m == CHOOSE x \in S : \A y \in S : x <= y
         IN  <<m>> \o SetToList(S \ {m})

RECURSIVE KSubsets(_, _)
\* The subsets of S with exactly k members.
KSubsets(S, k) ==
    IF k = 0 THEN {{}}
    ELSE IF Cardinality(S) < k THEN {}
    ELSE LET m == CHOOSE x \in S : \A y \in S : x <= y
         IN  {T \cup {m} : T \in KSubsets(S \ {m}, k - 1)} \cup KSubsets(S \ {m}, k)

\* The list s back to front.
Reversed(s) == [i \in 1..Len(s) |-> s[Len(s) + 1 - i]]

\* range(1, 46) of the source, with 45 scaled to hi.
NumberRange(hi) == [i \in 1..hi |-> i]

\* ---------------------------------------------------------------------
\* is_valid (lines 7-28)
\* ---------------------------------------------------------------------
\* sum(1 for n in numbers if n % 2 == 1), line 12.
OddCount(numbers) == Len(SelectSeq(numbers, LAMBDA n : n % 2 = 1))

\* Mutant of OddEvenOk: only a lower limit on the odd members is checked.
OddEvenAtLeast(numbers) == OddCount(numbers) >= OddEvenTarget

\* Lines 11-15: TRUE when the odd/even rule lets the list pass.
OddEvenOk(numbers) ==
    LET odd  == OddCount(numbers)
        even == SetSize - odd
    IN  odd = OddEvenTarget /\ even = OddEvenTarget

RECURSIVE ScanRunsNoReset(_, _, _)
\* Mutant of ScanRuns: the counter is not reset when the run is broken.
ScanRunsNoReset(numbers, i, consecutive) ==
    IF i > Len(numbers) THEN TRUE
    ELSE IF numbers[i] = numbers[i - 1] + 1
         THEN IF consecutive + 1 >= RunLimit
              THEN FALSE
              ELSE ScanRunsNoReset(numbers, i + 1, consecutive + 1)
         ELSE ScanRunsNoReset(numbers, i + 1, consecutive)

RECURSIVE ScanRuns(_, _, _)
\* The for loop of lines 20-26 from its iteration on numbers[i] (1-based;
\* the source's index is i - 1) with the running counter consecutive.
\* FALSE: the loop returned False; TRUE: it ran to its end.
ScanRuns(numbers, i, consecutive) ==
    IF i > Len(numbers) THEN TRUE
    ELSE IF numbers[i] = numbers[i - 1] + 1
         THEN IF consecutive + 1 >= RunLimit
              THEN FALSE
              ELSE ScanRuns(numbers, i + 1, consecutive + 1)
         ELSE ScanRuns(numbers, i + 1, 1)

\* Lines 18-26.
ConsecutiveOk(numbers) == ScanRuns(numbers, 2, 1)

is_valid(numbers, odd_even_rule, consecutive_rule) ==
    LET s == sorted(numbers)
    IN  /\ (odd_even_rule => OddEvenOk(s))
        /\ (consecutive_rule => ConsecutiveOk(s))

\* ---------------------------------------------------------------------
\* generate_lotto_numbers (lines 31-80)
\* ---------------------------------------------------------------------
\* Line 56.
available ==
    SelectSeq(NumberRange(MaxNumber), LAMBDA n : ~InList(n, excluded_numbers))

\* Mutant of TooManyFixed: the limit is off by one.
TooManyFixedOffByOne == Len(fixed_numbers) > SetSize + 1

\* Line 59.
TooManyFixed == Len(fixed_numbers) > SetSize

\* Line 63.
remaining_count == SetSize - Len(fixed_numbers)

\* Mutant of candidates_pool: the fixed numbers stay in the pool.
candidates_pool_with_fixed == available

\* Line 68.
candidates_pool == SelectSeq(available, LAMBDA n : ~InList(n, fixed_numbers))

\* Mutant of PoolTooSmall: a pool of exactly remaining_count numbers is
\* refused too.
PoolTooSmallOrEqual == Len(candidates_pool) <= remaining_count

\* Line 70.
PoolTooSmall == Len(candidates_pool) < remaining_count

\* random.sample(population, k) for 0 <= k <= len(population): the possible
\* draws.  The order of a draw is erased by sorted() on line 74, so each
\* draw is listed once, ascending.
Sample(population, k) == {SetToList(S) : S \in KSubsets(Range(population), k)}

\* random.sample raises ValueError when k is negative or exceeds the population.
SampleRaises(population, k) == k < 0 \/ k > Len(population)

\* Mutant of Candidate: the fixed numbers are left out of the candidate.
CandidateWithoutFixed(random_part) == sorted(random_part)

\* Line 74.
Candidate(random_part) == sorted(fixed_numbers \o random_part)

\* Mutant of NotInResults: the membership test is dropped.
NotInResultsAlways(n) == TRUE

\* Line 77: nums not in results.
NotInResults(n) == ~InList(n, results)

\* Line 52.
LoopTest == Len(results) < count /\ trials_limit > 0

\* Lines 52-60: the body is entered, trials_limit is decremented, and the
\* guard on the number of fixed numbers breaks out of the loop.
Break ==
    /\ pc = "loop"
    /\ LoopTest
    /\ TooManyFixed
    /\ trials_limit' = trials_limit - 1
    /\ attempts' = attempts + 1
    /\ pc' = "done"
    /\ UNCHANGED <<params, results, call_numbers, verdict, draws>>

\* Mutant of Skip: a skipped iteration leaves trials_limit as it is.
SkipKeepsBudget ==
    /\ pc = "loop"
    /\ LoopTest
    /\ ~TooManyFixed
    /\ (remaining_count < 0 \/ PoolTooSmall)
    /\ attempts' = attempts + 1
    /\ UNCHANGED <<pc, params, results, trials_limit, call_numbers, verdict, draws>>

\* Lines 52-71: an iteration that ends in one of the two continue statements
\* (lines 64-65 and 70-71).
Skip ==
    /\ pc = "loop"
    /\ LoopTest
    /\ ~TooManyFixed
    /\ (remaining_count < 0 \/ PoolTooSmall)
    /\ trials_limit' = trials_limit - 1
    /\ attempts' = attempts + 1
    /\ UNCHANGED <<pc, params, results, call_numbers, verdict, draws>>

\* Lines 52-78: an iteration that calls random.sample and, unless the call
\* raises, builds the candidate, validates it and appends it when it is
\* valid and new.
Draw ==
    /\ pc = "loop"
    /\ LoopTest
    /\ ~TooManyFixed
    /\ ~(remaining_count < 0 \/ PoolTooSmall)
    /\ trials_limit' = trials_limit - 1
    /\ attempts' = attempts + 1
    /\ draws' = draws + 1
    /\ IF SampleRaises(candidates_pool, remaining_count)
       THEN /\ pc' = "raised"
            /\ UNCHANGED <<params, results, call_numbers, verdict>>
       ELSE \E random_part \in Sample(candidates_pool, remaining_count) :
              LET nums == Candidate(random_part)
              IN  /\ results' =
                        IF /\ is_valid(nums, use_odd_even_rule, use_consecutive_rule)
                           /\ NotInResults(nums)
                        THEN Append(results, nums)
                        ELSE results
                  /\ UNCHANGED <<pc, params, call_numbers, verdict>>

\* Lines 52 and 80: the loop test fails and results is returned.
Return ==
    /\ pc = "loop"
    /\ ~LoopTest
    /\ pc' = "done"
    /\ UNCHANGED <<params, results, trials_limit, call_numbers, verdict, attempts, draws>>

Next == Break \/ Skip \/ Draw \/ Return

\* ---------------------------------------------------------------------
\* Inputs and specifications
\* ---------------------------------------------------------------------
Numbers == 1..MaxNumber

\* One number, GapNumber, is excluded in every call of Spec and fixed in
\* none.  With the whole range eligible, or with the gap among the fixed
\* numbers, the candidate space grows past what can be enumerated once three
\* combinations are requested; the gap leaves pools whose combinations pass
\* and fail either rule.
\*
\* Fixed lists: every set of numbers other than GapNumber, as the ascending
\* list parse_numbers (lines 127-134) builds; the lists of more than SetSize
\* numbers included.
FixedInputs == {SetToList(S) : S \in SUBSET (Numbers \ {GapNumber})}

\* Excluded lists: every run lo..hi of numbers that covers GapNumber; a
\* fixed list may hold numbers of it.
ExcludedInputs ==
    {SetToList(lo..hi) : lo \in 1..GapNumber, hi \in GapNumber..MaxNumber}

\* Lines 46-50: the state on entry to the while loop.
Entry(budget) ==
    /\ pc = "loop"
    /\ results = <<>>
    /\ trials_limit = budget
    /\ call_numbers = <<>>
    /\ verdict = "none"
    /\ attempts = 0
    /\ draws = 0

Init ==
    /\ count \in 1..MaxCount
    /\ use_odd_even_rule \in BOOLEAN
    /\ use_consecutive_rule \in BOOLEAN
    /\ fixed_numbers \in FixedInputs
    /\ excluded_numbers \in ExcludedInputs
    /\ Entry(TrialsBudget)

\* The generator with the attempt budget scaled down to TrialsBudget.
Spec == Init /\ [][Next]_vars

\* Inputs of the specification that keeps the source's budget of 10000:
\* the first SetSize - 1, SetSize and SetSize + 1 numbers fixed, and
\* nothing or everything excluded.
BudgetFixedInputs == {SetToList(1..k) : k \in (SetSize - 1)..(SetSize + 1)}

BudgetExcludedInputs == {<<>>, SetToList(Numbers)}

InitBudget ==
    /\ count \in 1..MaxCount
    /\ use_odd_even_rule \in BOOLEAN
    /\ use_consecutive_rule \in BOOLEAN
    /\ fixed_numbers \in BudgetFixedInputs
    /\ excluded_numbers \in BudgetExcludedInputs
    /\ Entry(TrialsLimit)

\* The generator with trials_limit = 10000.
SpecBudget == InitBudget /\ [][Next]_vars

\* A bare call of is_valid on a list of SetSize distinct numbers, ascending
\* or descending.
Combinations(S) == KSubsets(S, SetSize)

ValidInputs ==
    UNION {{SetToList(S), Reversed(SetToList(S))} : S \in Combinations(1..MaxValidNumber)}

InitValid ==
    /\ pc = "call"
    /\ call_numbers \in ValidInputs
    /\ use_odd_even_rule \in BOOLEAN
    /\ use_consecutive_rule \in BOOLEAN
    /\ verdict = "none"
    /\ count = 1
    /\ fixed_numbers = <<>>
    /\ excluded_numbers = <<>>
    /\ results = <<>>
    /\ trials_limit = 0
    /\ attempts = 0
    /\ draws = 0

IsValidCall ==
    /\ pc = "call"
    /\ verdict' = is_valid(call_numbers, use_odd_even_rule, use_consecutive_rule)
    /\ pc' = "ret"
    /\ UNCHANGED <<params, results, trials_limit, call_numbers, attempts, draws>>

NextValid == IsValidCall

SpecValid == InitValid /\ [][NextValid]_vars

\* ---------------------------------------------------------------------
\* Reference notions of the claims (stated on sets, independently of the
\* code's scans)
\* ---------------------------------------------------------------------
\* Exactly OddEvenTarget odd and OddEvenTarget even members.
Balanced(S) ==
    /\ Cardinality({n \in S : n % 2 = 1}) = OddEvenTarget
    /\ Cardinality({n \in S : n % 2 = 0}) = OddEvenTarget

\* Three members n, n+1, n+2.
HasLongRun(S) == \E n \in S : n + 1 \in S /\ n + 2 \in S

\* S satisfies every enabled rule.
MeetsRules(S, odd_even_rule, consecutive_rule) ==
    /\ (odd_even_rule => Balanced(S))
    /\ (consecutive_rule => ~HasLongRun(S))

\* c is a combination: SetSize numbers of the range, strictly ascending.
IsCombination(c) ==
    /\ Len(c) = SetSize
    /\ \A i \in 1..Len(c) : c[i] \in Numbers
    /\ \A i \in 1..(Len(c) - 1) : c[i] < c[i + 1]

Returned == pc = "done"

\* ---------------------------------------------------------------------
\* Claims
\* ---------------------------------------------------------------------

\* C1: no member of excluded_numbers appears in any combination of results,
\* however fixed_numbers and excluded_numbers relate.
C1_ExcludedNeverReturned ==
    \A i \in DOMAIN results :
        Range(results[i]) \cap Range(excluded_numbers) = {}

\* C2: every member of fixed_numbers appears in every combination of results.
C2_FixedInEveryCombination ==
    \A i \in DOMAIN results : Range(fixed_numbers) \subseteq Range(results[i])

\* C2 witness: a call with some but not all numbers fixed has returned a
\* combination.
C2_Witness ==
    /\ Returned
    /\ Len(fixed_numbers) \in 1..(SetSize - 1)
    /\ Len(results) >= 1

\* C3: after every iteration and at return, every combination of results has
\* exactly SetSize members, all in the range, distinct and ascending.
C3_WellFormed == \A i \in DOMAIN results : IsCombination(results[i])

\* C3 witness: the loop is still running with a combination accumulated.
C3_Witness ==
    /\ pc = "loop"
    /\ LoopTest
    /\ Len(results) >= 1

\* C4: every combination of results satisfies every enabled rule.
C4_RulesHold ==
    \A i \in DOMAIN results :
        MeetsRules(Range(results[i]), use_odd_even_rule, use_consecutive_rule)

\* C4 witness: both rules are enabled and a combination made partly of fixed
\* numbers has been returned.
C4_Witness ==
    /\ Returned
    /\ use_odd_even_rule
    /\ use_consecutive_rule
    /\ Len(fixed_numbers) \in 1..(SetSize - 1)
    /\ Len(results) >= 1

\* C5: results never holds two combinations equal as sets and never more
\* than count of them; a step appends at most one combination and leaves
\* the accepted ones as they are.
C5_Unique ==
    /\ \A i, j \in DOMAIN results :
          Range(results[i]) = Range(results[j]) => i = j
    /\ Len(results) <= count

C5_Grows ==
    \/ results' = results
    \/ /\ Len(results') = Len(results) + 1
       /\ SubSeq(results', 1, Len(results)) = results

C5_UniqueAndGrowing == []C5_Unique /\ [][C5_Grows]_vars

\* C5 witness: with no rule enabled and two combinations requested, two
\* draws have left one combination: the second draw repeated the first.
C5_Witness ==
    /\ ~use_odd_even_rule
    /\ ~use_consecutive_rule
    /\ count = 2
    /\ draws = 2
    /\ Len(results) = 1

\* C6: under the source's budget of 10000 the loop is bounded.  Every
\* iteration, skipped or not, takes one unit of the budget, which never goes
\* below zero, so at most 10000 iterations precede the return; nothing is
\* raised; every step that does not return takes a unit; no iteration
\* follows the one that brings results to count combinations; and a call
\* with at most SetSize fixed numbers that returns fewer than count
\* combinations has made exactly 10000 attempts.
C6_BudgetKept ==
    /\ attempts + trials_limit = TrialsLimit
    /\ trials_limit >= 0
    /\ pc \in {"loop", "done"}
    /\ (/\ Returned
        /\ Len(fixed_numbers) <= SetSize
        /\ Len(results) < count) => attempts = TrialsLimit

C6_Step ==
    /\ (pc' = "loop" => trials_limit' = trials_limit - 1)
    /\ (Len(results) >= count => attempts' = attempts /\ pc' = "done")

C6_Terminates == []C6_BudgetKept /\ [][C6_Step]_vars

\* C6 witness: a call that drew candidates on all 10000 attempts has
\* returned fewer combinations than requested.
C6_Witness ==
    /\ Returned
    /\ draws = TrialsLimit
    /\ Len(results) >= 1
    /\ Len(results) < count

\* C7: with more than SetSize fixed numbers the call returns nothing in its
\* first iteration: nothing is drawn, validated or appended, and nothing is
\* raised.
C7_GuardReturnsEmpty ==
    Len(fixed_numbers) > SetSize =>
        /\ results = <<>>
        /\ draws = 0
        /\ pc # "raised"
        /\ attempts <= 1
        /\ (attempts = 1 => Returned)

\* C7 witness: a call with SetSize + 1 fixed numbers has returned.
C7_Witness ==
    /\ Returned
    /\ Len(fixed_numbers) = SetSize + 1

\* C8: when excluded_numbers leaves fewer than SetSize numbers eligible,
\* every attempt is skipped and the call returns nothing, whatever the
\* fixed numbers (at most SetSize of them).
C8_SmallPoolReturnsEmpty ==
    (Len(available) < SetSize /\ Len(fixed_numbers) <= SetSize) =>
        /\ results = <<>>
        /\ draws = 0
        /\ pc # "raised"

C10_ValidatorMatchesRules ==
    pc = "ret" =>
        verdict = MeetsRules(Range(call_numbers), use_odd_even_rule, use_consecutive_rule)

\* C10 witness: with both rules enabled, a combination holding two separate
\* runs of length two, one of them at its end, has passed.
C10_Witness ==
    /\ pc = "ret"
    /\ use_odd_even_rule
    /\ use_consecutive_rule
    /\ verdict = TRUE
    /\ \E a, b \in Range(call_numbers) :
          /\ a + 1 \in Range(call_numbers)
          /\ b + 1 \in Range(call_numbers)
          /\ a + 2 < b
          /\ \A n \in Range(call_numbers) : n <= b + 1

====
